---- MODULE Spec2Model ----
(***************************************************************************)
(* A model of mazo: the indexed binary heap of src/src/binary_heap.rs and  *)
(* the maze generator / A* solver of src/src/main.rs.                      *)
(*                                                                         *)
(* Conventions                                                             *)
(*  - Vec<T> is a TLA+ sequence; Rust's 0-based index i is element i + 1,  *)
(*    read through At and written through SetAt.                           *)
(*  - HashMap<K, usize> is a function whose DOMAIN is the set of keys      *)
(*    present.  Option::unwrap() on a missing key is the application of    *)
(*    the function outside its domain, which is an evaluation error: a     *)
(*    run that completes has met no such panic.                            *)
(*  - a usize is represented by the integer r with -2^63 < r < 2^63 that   *)
(*    is congruent to it modulo 2^64 (so usize::MAX is -1).  Wrapping      *)
(*    addition is integer addition on representatives; Ord on usize is     *)
(*    usize_lt.                                                            *)
(***************************************************************************)
EXTENDS Integers, Sequences, FiniteSets, Bags, TLC

(***************************************************************************)
(* Bounds of the heap exploration.                                         *)
(***************************************************************************)
MaxKey == 3
MaxValue == 2

(***************************************************************************)
(* Bound of the maze exploration: the dimension vectors are those whose    *)
(* walls array (one flag per cell and axis) has at most MaxWalls entries.  *)
(***************************************************************************)
MaxWalls == 6

(***************************************************************************)
(* Bound of the exploration of generate() under fairness, where            *)
(* termination is checked: the same, with a smaller walls array.           *)
(***************************************************************************)
MaxLiveWalls == 4

(***************************************************************************)
(* Bound of the menu: the longest dimension string typed.                  *)
(***************************************************************************)
MaxInput == 3

Keys == 0..MaxKey
Values == 0..MaxValue

VARIABLES
    heap,       \* BinaryHashHeap: [items, map]
    before,     \* the heap as it was when the last call was made
    call,       \* the last call: [op, action, item]
    ret,        \* what the last call returned
    last_popped,  \* history: the set of the key the previous call popped,
                  \* kept through a call that pushes this very key; else {}
    overflow_checks,  \* the build: true when `+` panics on overflow (the dev
                      \* profile), false when it wraps (the release profile)
    maze,       \* Maze: [dimensions, start, end, position, axes, walls]
    pc,         \* where the maze's caller is: "idle", inside "generate" or
                \* "solve", or at a panic that ended the process
    generated,  \* history: generate() has returned and the walls are its result
    gen,        \* locals of generate(): [visited, walls]; walls, the frontier,
                \* is a Vec read only through a drawn index and swap_remove,
                \* so its order is never observed: it is kept as the bag of
                \* its elements
    slv,        \* locals of solve(): [open, visited, links]
    solution,   \* Application::Main's solution: Some(path) once solve() has
                \* returned, None before
    last_walk,  \* history: the walk() just made, [from, view_axis, sign] with
                \* `from` the position before it; None after any other call
    regenerated,  \* history: the generate() under way or last returned was
                  \* entered with a wall open; false after any other call
    dimension   \* Application::Menu's dimension: the String typed so far, a
                \* sequence of characters

heap_vars == <<heap, before, call, ret, last_popped>>

maze_vars ==
    <<overflow_checks, maze, pc, generated, gen, slv, solution, last_walk,
      regenerated, dimension>>

vars == <<heap_vars, maze_vars>>

----------------------------------------------------------------------------
(* Vec and HashMap primitives *)

At(s, i) == s[i + 1]

SetAt(s, i, x) == [s EXCEPT ![i + 1] = x]

\* Vec::swap(i, j)
swap(s, i, j) == [s EXCEPT ![i + 1] = s[j + 1], ![j + 1] = s[i + 1]]

\* Mutant: Vec::pop() in place of swap_remove(i), the last element is taken.
swap_remove_takes_last(s, i) ==
    LET n == Len(s) IN
    [removed |-> s[n], rest |-> SubSeq(s, 1, n - 1)]

\* Vec::swap_remove(i): the removed element and the vector with the last
\* element moved into slot i.
swap_remove(s, i) ==
    LET n == Len(s)
        moved == SetAt(s, i, s[n])
    IN  [removed |-> At(s, i), rest |-> SubSeq(moved, 1, n - 1)]

\* HashMap::insert / VacantEntry::insert
map_insert(m, k, v) == [x \in DOMAIN m \cup {k} |-> IF x = k THEN v ELSE m[x]]

\* HashMap::remove
map_remove(m, k) == [x \in DOMAIN m \ {k} |-> m[x]]

\* *map.get_mut(k).unwrap() = v
map_set(m, k, v) ==
    LET slot == m[k] IN
    IF slot = v THEN m ELSE [m EXCEPT ![k] = v]

\* std::mem::swap(map.get_mut(k1).unwrap(), map.get_mut(k2).unwrap())
map_swap(m, k1, k2) ==
    LET v1 == m[k1]
        v2 == m[k2]
    IN  [x \in DOMAIN m |-> IF x = k1 THEN v2 ELSE IF x = k2 THEN v1 ELSE m[x]]

----------------------------------------------------------------------------
(* usize *)

\* Ord on usize, on representatives: the non-negative ones are the small
\* values, the negative ones the values just below 2^64.
usize_lt(a, b) ==
    IF (a >= 0) = (b >= 0) THEN a < b ELSE a >= 0

\* Mutant: a strict comparison where the code's is not.
usize_le_strict(a, b) == usize_lt(a, b)

usize_le(a, b) == a = b \/ usize_lt(a, b)

----------------------------------------------------------------------------
(* BinaryHashHeapItem *)

\* Item of the heap's test has fields key and value; Node of Maze::solve
\* has position, g_score and f_score.
key(item) == IF "key" \in DOMAIN item THEN item.key ELSE item.position

value(item) == IF "value" \in DOMAIN item THEN item.value ELSE item.f_score

----------------------------------------------------------------------------
(* BinaryHashHeap.  The `index: &mut usize` that sift_up and sift_down take *)
(* points at the map's entry of the item being sifted: it is modelled by   *)
(* that item's key k, and *index by map[k].  The pointer is made by an     *)
(* unsafe cast and stays live across map.get_mut(); the table is not       *)
(* resized while it lives (nothing is inserted after it is taken) and the  *)
(* entry get_mut() returns is that of another key, so the two never name   *)
(* the same slot and every build reads and writes the slots as written     *)
(* here.                                                                   *)

EmptyHeap == [items |-> <<>>, map |-> <<>>]

\* Option::None
None == [none |-> TRUE]

\* Option::Some
Some(x) == [some |-> x]

RECURSIVE sift_up(_, _, _)
sift_up(items, map, k) ==
    LET index == map[k] IN
    IF index = 0 THEN [items |-> items, map |-> map]
    ELSE
        LET parent_index == (index - 1) \div 2 IN
        IF usize_lt(value(At(items, parent_index)), value(At(items, index)))
        THEN [items |-> items, map |-> map]
        ELSE
            LET pk == key(At(items, parent_index))
                map2 == map_swap(map, k, pk)
                items2 == swap(items, map2[k], map2[pk])
            IN  sift_up(items2, map2, k)

\* Mutant: the left child is taken whenever it exists, without comparing it
\* with the right one.
RECURSIVE sift_down_left_only(_, _, _)
sift_down_left_only(items, map, k) ==
    LET index == map[k]
        left_child_index == index * 2 + 1
    IN
    IF ~(left_child_index < Len(items)) THEN [items |-> items, map |-> map]
    ELSE IF usize_lt(value(At(items, index)), value(At(items, left_child_index)))
    THEN [items |-> items, map |-> map]
    ELSE
        LET ck == key(At(items, left_child_index))
            map2 == map_swap(map, k, ck)
            items2 == swap(items, map2[k], map2[ck])
        IN  sift_down_left_only(items2, map2, k)

RECURSIVE sift_down(_, _, _)
sift_down(items, map, k) ==
    LET index == map[k]
        left_child_index == index * 2 + 1
        right_child_index == index * 2 + 2
        has_left == left_child_index < Len(items)
        has_right == right_child_index < Len(items)
    IN
    IF ~has_left /\ ~has_right THEN [items |-> items, map |-> map]
    ELSE
        LET child_index ==
                IF ~has_left THEN right_child_index
                ELSE IF ~has_right THEN left_child_index
                ELSE IF usize_lt(value(At(items, left_child_index)),
                                 value(At(items, right_child_index)))
                     THEN left_child_index
                     ELSE right_child_index
        IN
        IF usize_lt(value(At(items, index)), value(At(items, child_index)))
        THEN [items |-> items, map |-> map]
        ELSE
            LET ck == key(At(items, child_index))
                map2 == map_swap(map, k, ck)
                items2 == swap(items, map2[k], map2[ck])
            IN  sift_down(items2, map2, k)

\* Mutant: IncreaseKey replaces the item and leaves it where it is.
push_increase_no_sift(h, action, item) ==
    LET k == key(item) IN
    IF k \in DOMAIN h.map
    THEN
        LET index == h.map[k] IN
        CASE action = "Keep" ->
                [heap |-> h, ret |-> FALSE]
          [] action = "DecreaseKey" ->
                IF usize_le(value(At(h.items, index)), value(item))
                THEN [heap |-> h, ret |-> FALSE]
                ELSE [heap |-> sift_up(SetAt(h.items, index, item), h.map, k),
                      ret |-> TRUE]
          [] action = "IncreaseKey" ->
                IF usize_le(value(item), value(At(h.items, index)))
                THEN [heap |-> h, ret |-> FALSE]
                ELSE [heap |-> [items |-> SetAt(h.items, index, item), map |-> h.map],
                      ret |-> TRUE]
    ELSE
        LET index == Len(h.items) IN
        [heap |-> sift_up(Append(h.items, item), map_insert(h.map, k, index), k),
         ret |-> TRUE]

\* Mutant: IncreaseKey sifts the changed slot toward the root.
push_increase_sifts_up(h, action, item) ==
    LET k == key(item) IN
    IF k \in DOMAIN h.map
    THEN
        LET index == h.map[k] IN
        CASE action = "Keep" ->
                [heap |-> h, ret |-> FALSE]
          [] action = "DecreaseKey" ->
                IF usize_le(value(At(h.items, index)), value(item))
                THEN [heap |-> h, ret |-> FALSE]
                ELSE [heap |-> sift_up(SetAt(h.items, index, item), h.map, k),
                      ret |-> TRUE]
          [] action = "IncreaseKey" ->
                IF usize_le(value(item), value(At(h.items, index)))
                THEN [heap |-> h, ret |-> FALSE]
                ELSE [heap |-> sift_up(SetAt(h.items, index, item), h.map, k),
                      ret |-> TRUE]
    ELSE
        LET index == Len(h.items) IN
        [heap |-> sift_up(Append(h.items, item), map_insert(h.map, k, index), k),
         ret |-> TRUE]

\* Mutant: a vacant key inserted under Keep is reported as not inserted.
push_vacant_keep_false(h, action, item) ==
    LET k == key(item) IN
    IF k \in DOMAIN h.map
    THEN
        LET index == h.map[k] IN
        CASE action = "Keep" ->
                [heap |-> h, ret |-> FALSE]
          [] action = "DecreaseKey" ->
                IF usize_le(value(At(h.items, index)), value(item))
                THEN [heap |-> h, ret |-> FALSE]
                ELSE [heap |-> sift_up(SetAt(h.items, index, item), h.map, k),
                      ret |-> TRUE]
          [] action = "IncreaseKey" ->
                IF usize_le(value(item), value(At(h.items, index)))
                THEN [heap |-> h, ret |-> FALSE]
                ELSE [heap |-> sift_down(SetAt(h.items, index, item), h.map, k),
                      ret |-> TRUE]
    ELSE
        LET index == Len(h.items) IN
        [heap |-> sift_up(Append(h.items, item), map_insert(h.map, k, index), k),
         ret |-> action # "Keep"]

\* Mutant: Keep on a stored key behaves as DecreaseKey.
push_keep_decreases(h, action, item) ==
    LET k == key(item) IN
    IF k \in DOMAIN h.map
    THEN
        LET index == h.map[k] IN
        CASE action \in {"Keep", "DecreaseKey"} ->
                IF usize_le(value(At(h.items, index)), value(item))
                THEN [heap |-> h, ret |-> FALSE]
                ELSE [heap |-> sift_up(SetAt(h.items, index, item), h.map, k),
                      ret |-> TRUE]
          [] action = "IncreaseKey" ->
                IF usize_le(value(item), value(At(h.items, index)))
                THEN [heap |-> h, ret |-> FALSE]
                ELSE [heap |-> sift_down(SetAt(h.items, index, item), h.map, k),
                      ret |-> TRUE]
    ELSE
        LET index == Len(h.items) IN
        [heap |-> sift_up(Append(h.items, item), map_insert(h.map, k, index), k),
         ret |-> TRUE]

\* push(action, item): the heap after the call and the value returned.
push(h, action, item) ==
    LET k == key(item) IN
    IF k \in DOMAIN h.map
    THEN
        LET index == h.map[k] IN
        CASE action = "Keep" ->
                [heap |-> h, ret |-> FALSE]
          [] action = "DecreaseKey" ->
                IF usize_le(value(At(h.items, index)), value(item))
                THEN [heap |-> h, ret |-> FALSE]
                ELSE [heap |-> sift_up(SetAt(h.items, index, item), h.map, k),
                      ret |-> TRUE]
          [] action = "IncreaseKey" ->
                IF usize_le(value(item), value(At(h.items, index)))
                THEN [heap |-> h, ret |-> FALSE]
                ELSE [heap |-> sift_down(SetAt(h.items, index, item), h.map, k),
                      ret |-> TRUE]
    ELSE
        LET index == Len(h.items) IN
        [heap |-> sift_up(Append(h.items, item), map_insert(h.map, k, index), k),
         ret |-> TRUE]

\* Mutant: the item moved to the root keeps its old map entry.
pop_stale_index(h) ==
    IF h.items = <<>> THEN [heap |-> h, ret |-> None]
    ELSE
        LET r == swap_remove(h.items, 0)
            result == r.removed
            map1 == map_remove(h.map, key(result))
        IN
        IF r.rest = <<>>
        THEN [heap |-> [items |-> r.rest, map |-> map1], ret |-> result]
        ELSE
            LET k == key(At(r.rest, 0)) IN
            [heap |-> sift_down(r.rest, map1, k), ret |-> result]

\* Mutant: the popped item's key stays in the map.
pop_keeps_key(h) ==
    IF h.items = <<>> THEN [heap |-> h, ret |-> None]
    ELSE
        LET r == swap_remove(h.items, 0)
            result == r.removed
            map1 == h.map
        IN
        IF r.rest = <<>>
        THEN [heap |-> [items |-> r.rest, map |-> map1], ret |-> result]
        ELSE
            LET k == key(At(r.rest, 0)) IN
            [heap |-> sift_down(r.rest, map_set(map1, k, 0), k), ret |-> result]

\* pop(): the heap after the call and the value returned (an item or None).
pop(h) ==
    IF h.items = <<>> THEN [heap |-> h, ret |-> None]
    ELSE
        LET r == swap_remove(h.items, 0)
            result == r.removed
            map1 == map_remove(h.map, key(result))
        IN
        IF r.rest = <<>>
        THEN [heap |-> [items |-> r.rest, map |-> map1], ret |-> result]
        ELSE
            LET k == key(At(r.rest, 0)) IN
            [heap |-> sift_down(r.rest, map_set(map1, k, 0), k), ret |-> result]

\* The test's drain: `while let Some(node) = heap.pop()`, the popped items in
\* the order they came out.
RECURSIVE drain(_, _)
drain(h, popped) ==
    LET r == pop(h) IN
    IF r.ret = None THEN [heap |-> r.heap, ret |-> popped]
    ELSE drain(r.heap, Append(popped, r.ret))

----------------------------------------------------------------------------
(* The heap driven as its test drives it: a loop that in each iteration    *)
(* makes one call (a push with any PushAction, a pop, or a drain) over     *)
(* small keys and values, and then checks the heap.  `call`, `ret` and     *)
(* `before` hold the iteration's call, its result and the heap it was made *)
(* on; call = NoCall at the head of the loop.                              *)

PushActions == {"Keep", "DecreaseKey", "IncreaseKey"}

Item(k, v) == [key |-> k, value |-> v]

NoCall == [op |-> "none", action |-> "-", item |-> None]

\* sanity_check(): the assertions hold.
sanity_check(h) ==
    \A i \in 0..(Len(h.items) - 1) :
        /\ key(At(h.items, i)) \in DOMAIN h.map
        /\ h.map[key(At(h.items, i))] = i

HeapInit ==
    /\ heap = EmptyHeap
    /\ before = EmptyHeap
    /\ call = NoCall
    /\ ret = None
    /\ last_popped = {}

Push(action, k, v) ==
    LET r == push(heap, action, Item(k, v)) IN
    /\ call = NoCall
    /\ heap' = r.heap
    /\ ret' = r.ret
    /\ before' = heap
    /\ call' = [op |-> "push", action |-> action, item |-> Item(k, v)]
    /\ last_popped' = last_popped \cap {k}
    /\ UNCHANGED maze_vars

Pop ==
    LET r == pop(heap) IN
    /\ call = NoCall
    /\ heap' = r.heap
    /\ ret' = r.ret
    /\ before' = heap
    /\ call' = [op |-> "pop", action |-> "-", item |-> None]
    /\ last_popped' = IF r.ret = None THEN {} ELSE {key(r.ret)}
    /\ UNCHANGED maze_vars

Drain ==
    LET r == drain(heap, <<>>) IN
    /\ call = NoCall
    /\ heap' = r.heap
    /\ ret' = r.ret
    /\ before' = heap
    /\ call' = [op |-> "drain", action |-> "-", item |-> None]
    /\ last_popped' = IF r.ret = <<>> THEN {} ELSE {key(r.ret[Len(r.ret)])}
    /\ UNCHANGED maze_vars

\* The end of an iteration: the result is dropped and the loop goes on.
NextIteration ==
    /\ call # NoCall
    /\ call.op = "drain" \/ sanity_check(heap)
    /\ call' = NoCall
    /\ ret' = None
    /\ before' = EmptyHeap
    /\ heap' = heap
    /\ last_popped' = IF call.op = "push" THEN {} ELSE last_popped
    /\ UNCHANGED maze_vars

HeapNext ==
    \/ \E action \in PushActions, k \in Keys, v \in Values : Push(action, k, v)
    \/ Pop
    \/ Drain
    \/ NextIteration


----------------------------------------------------------------------------
(* Wall and Maze: positions are Vec<usize>, one coordinate per axis; axis a *)
(* (0-based) is coordinate a + 1 of the sequence.                          *)

RECURSIVE Product(_)
Product(shape) ==
    IF shape = <<>> THEN 1 ELSE Head(shape) * Product(Tail(shape))

\* The dimension vectors explored: every vector of positive sizes whose
\* wall count is within the bound.
Shapes ==
    {shape \in UNION {[1..d -> 1..MaxWalls] : d \in 1..MaxWalls} :
        Product(shape) * Len(shape) <= MaxWalls}

\* The cells of a maze of the given shape.
RECURSIVE Cells(_)
Cells(shape) ==
    IF shape = <<>> THEN {<<>>}
    ELSE {<<x>> \o rest : x \in 0..(Head(shape) - 1), rest \in Cells(Tail(shape))}

Wall(position, axis) == [position |-> position, axis |-> axis]

\* Wall::from_cell: per axis, the wall at the cell and the wall at the cell
\* one step back (wrapping) along the axis.
from_cell(shape, position) ==
    [n \in 1..(2 * Len(shape)) |->
        LET axis == (n - 1) \div 2
            sign == (n - 1) % 2 = 1
        IN  Wall(IF sign
                 THEN IF At(position, axis) # 0
                      THEN SetAt(position, axis, At(position, axis) - 1)
                      ELSE SetAt(position, axis, At(shape, axis) - 1)
                 ELSE position,
                 axis)]

\* Mutant: the second cell is one step on without wrapping at the last
\* coordinate.
get_neighbour_cells_no_wrap(wall, shape) ==
    LET position1 == wall.position
        position2 ==
            SetAt(wall.position, wall.axis, At(wall.position, wall.axis) + 1)
    IN  <<position1, position2>>

\* Wall::get_neighbour_cells
get_neighbour_cells(wall, shape) ==
    LET position1 == wall.position
        position2 ==
            IF At(wall.position, wall.axis) # At(shape, wall.axis) - 1
            THEN SetAt(wall.position, wall.axis, At(wall.position, wall.axis) + 1)
            ELSE SetAt(wall.position, wall.axis, 0)
    IN  <<position1, position2>>

\* Maze::new
new(dimensions) ==
    [dimensions |-> dimensions,
     start |-> [i \in 1..Len(dimensions) |-> 0],
     end |-> [i \in 1..Len(dimensions) |-> 0],
     position |-> [i \in 1..Len(dimensions) |-> 0],
     axes |-> <<0, 1>>,
     walls |-> [i \in 1..(Product(dimensions) * Len(dimensions)) |-> TRUE]]

\* Mutant: the stride is not multiplied by the sizes of the axes passed.
RECURSIVE wall_index_unit_stride(_, _, _, _, _)
wall_index_unit_stride(dimensions, wall, i, index, stride) ==
    IF i >= Len(dimensions) \/ i >= Len(wall.position)
    THEN index + stride * wall.axis
    ELSE wall_index_unit_stride(dimensions, wall, i + 1,
                                index + stride * At(wall.position, i),
                                stride)

\* The loop of compute_wall_index from axis i on.
RECURSIVE wall_index_from(_, _, _, _, _)
wall_index_from(dimensions, wall, i, index, stride) ==
    IF i >= Len(dimensions) \/ i >= Len(wall.position)
    THEN index + stride * wall.axis
    ELSE wall_index_from(dimensions, wall, i + 1,
                         index + stride * At(wall.position, i),
                         stride * At(dimensions, i))

\* Maze::compute_wall_index
compute_wall_index(m, wall) == wall_index_from(m.dimensions, wall, 0, 0, 1)

\* Maze::traverse_inplace, Maze::traverse
traverse(m, position, axis, sign) ==
    IF sign
    THEN IF At(position, axis) # At(m.dimensions, axis) - 1
         THEN SetAt(position, axis, At(position, axis) + 1)
         ELSE SetAt(position, axis, 0)
    ELSE IF At(position, axis) # 0
         THEN SetAt(position, axis, At(position, axis) - 1)
         ELSE SetAt(position, axis, At(m.dimensions, axis) - 1)

\* Mutant: the wall is taken at the cell itself in both directions.
neighbours_wall_at_cell(m, position) ==
    [n \in 1..(2 * Len(m.dimensions)) |->
        LET axis == (n - 1) \div 2
            sign == (n - 1) % 2 = 1
            neighbour_position == traverse(m, position, axis, sign)
        IN  [wall |-> Wall(position, axis), position |-> neighbour_position]]

\* Maze::neighbours: per axis and direction, the wall crossed and the cell
\* behind it.
neighbours(m, position) ==
    [n \in 1..(2 * Len(m.dimensions)) |->
        LET axis == (n - 1) \div 2
            sign == (n - 1) % 2 = 1
            neighbour_position == traverse(m, position, axis, sign)
            wall_position == IF sign THEN position ELSE neighbour_position
        IN  [wall |-> Wall(wall_position, axis), position |-> neighbour_position]]

\* Maze::reset_walls
reset_walls(m) == [m EXCEPT !.walls = [i \in 1..Len(m.walls) |-> TRUE]]

\* Maze::get_wall
get_wall(m, wall) == At(m.walls, compute_wall_index(m, wall))

\* Maze::set_wall
set_wall(m, wall, v) ==
    [m EXCEPT !.walls = SetAt(m.walls, compute_wall_index(m, wall), v)]

\* Maze::start
start(m) == [m EXCEPT !.position = m.start]

\* Maze::walk: the outcome ("return", or the panic of an index out of
\* bounds) and the maze after it.  get_wall() indexes walls at the wall's
\* index, and position[..] and dimensions[..] are indexed at the axis bound
\* to the slot.
walk(m, view_axis, sign) ==
    LET axis == At(m.axes, view_axis)
        D == Len(m.dimensions)
    IN
    IF sign
    THEN
        IF ~(compute_wall_index(m, Wall(m.position, axis)) < Len(m.walls))
        THEN [outcome |-> "panic_bounds", maze |-> m]
        ELSE IF get_wall(m, Wall(m.position, axis))
        THEN [outcome |-> "return", maze |-> m]
        ELSE IF ~(axis < D)
        THEN [outcome |-> "panic_bounds", maze |-> m]
        ELSE IF At(m.position, axis) # At(m.dimensions, axis) - 1
        THEN [outcome |-> "return",
              maze |-> [m EXCEPT !.position =
                            SetAt(m.position, axis, At(m.position, axis) + 1)]]
        ELSE [outcome |-> "return",
              maze |-> [m EXCEPT !.position = SetAt(m.position, axis, 0)]]
    ELSE
        IF ~(axis < D)
        THEN [outcome |-> "panic_bounds", maze |-> m]
        ELSE
            LET old_value == At(m.position, axis)
                moved == IF At(m.position, axis) # 0
                         THEN SetAt(m.position, axis, At(m.position, axis) - 1)
                         ELSE SetAt(m.position, axis, At(m.dimensions, axis) - 1)
            IN
            IF ~(compute_wall_index(m, Wall(moved, axis)) < Len(m.walls))
            THEN [outcome |-> "panic_bounds", maze |-> [m EXCEPT !.position = moved]]
            ELSE IF get_wall(m, Wall(moved, axis))
            THEN [outcome |-> "return",
                  maze |-> [m EXCEPT !.position = SetAt(moved, axis, old_value)]]
            ELSE [outcome |-> "return", maze |-> [m EXCEPT !.position = moved]]

\* Maze::set_view_axis
set_view_axis(m, view_axis, axis) ==
    IF view_axis < 2 /\ axis < Len(m.dimensions)
    THEN [m EXCEPT !.axes = SetAt(m.axes, view_axis, axis)]
    ELSE m

----------------------------------------------------------------------------
(* parse_dimension.  A String is the sequence of its characters, each a    *)
(* one-character string.                                                   *)

Digits == <<"0", "1", "2", "3", "4", "5", "6", "7", "8", "9">>

is_digit(c) == \E d \in 1..Len(Digits) : Digits[d] = c

digit(c) == (CHOOSE d \in 1..Len(Digits) : Digits[d] = c) - 1

\* str::split(','): the pieces between the commas, from what is left of the
\* string, the pieces closed so far and the piece being read.
RECURSIVE split_from(_, _, _)
split_from(rest, pieces, piece) ==
    IF rest = <<>> THEN Append(pieces, piece)
    ELSE IF Head(rest) = ","
    THEN split_from(Tail(rest), Append(pieces, piece), <<>>)
    ELSE split_from(Tail(rest), pieces, Append(piece, Head(rest)))

\* The number that a string of digits writes, after `value`.
RECURSIVE digits_value(_, _)
digits_value(t, v) ==
    IF t = <<>> THEN v ELSE digits_value(Tail(t), 10 * v + digit(Head(t)))

\* str::parse::<usize>, on strings short of overflow: Some(n) for one or
\* more digits, None (Err) for the empty string and for any other character.
parse_usize(t) ==
    IF t = <<>> \/ \E i \in 1..Len(t) : ~is_digit(t[i])
    THEN None
    ELSE Some(digits_value(t, 0))

\* parse_dimension: Some(the numbers between the commas) when every piece
\* parses, else None.
parse_dimension(str) ==
    LET pieces == split_from(str, <<>>, <<>>) IN
    IF \E i \in 1..Len(pieces) : parse_usize(pieces[i]) = None
    THEN None
    ELSE Some([i \in 1..Len(pieces) |-> parse_usize(pieces[i]).some])

----------------------------------------------------------------------------
(* Maze::generate *)

\* The bag of the elements of a Vec.
RECURSIVE to_bag(_)
to_bag(s) ==
    IF s = <<>> THEN EmptyBag ELSE SetToBag({Head(s)}) (+) to_bag(Tail(s))

\* Mutant: the walls are left as they were when generate() was entered.
generate_begin_no_reset(m, s, e) ==
    LET m1 == [m EXCEPT !.start = s, !.end = e] IN
    [maze |-> m1,
     gen |-> [visited |-> {s}, walls |-> to_bag(from_cell(m1.dimensions, s))]]

\* The start of generate(): start and end as drawn, the first frontier, the
\* walls reset.
generate_begin(m, s, e) ==
    LET m1 == [m EXCEPT !.start = s, !.end = e] IN
    [maze |-> reset_walls(m1),
     gen |-> [visited |-> {s}, walls |-> to_bag(from_cell(m1.dimensions, s))]]

\* The walls of `cell` that are present, in from_cell's order.
present_walls(m, cell) ==
    SelectSeq(from_cell(m.dimensions, cell), LAMBDA w : get_wall(m, w))

\* Mutant: the cell is taken as newly visited without looking it up.
visit_cell_unchecked(m, st, cell) ==
    [visited |-> st.visited \cup {cell},
     walls |-> st.walls (+) to_bag(present_walls(m, cell)),
     okay |-> TRUE]

\* The body of the loop over a picked wall's two cells, for one cell.
visit_cell(m, st, cell) ==
    IF cell \in st.visited THEN st
    ELSE [visited |-> st.visited \cup {cell},
          walls |-> st.walls (+) to_bag(present_walls(m, cell)),
          okay |-> TRUE]

\* Mutant: the picked wall is cleared whether or not a cell was newly visited.
generate_step_always_opens(m, g, wall) ==
    LET cells == get_neighbour_cells(wall, m.dimensions)
        st0 == [visited |-> g.visited,
                walls |-> g.walls (-) SetToBag({wall}),
                okay |-> FALSE]
        st2 == visit_cell(m, visit_cell(m, st0, cells[1]), cells[2])
    IN  [maze |-> set_wall(m, wall, FALSE),
         gen |-> [visited |-> st2.visited, walls |-> st2.walls]]

\* Mutant: the picked wall is never cleared.
generate_step_never_opens(m, g, wall) ==
    LET cells == get_neighbour_cells(wall, m.dimensions)
        st0 == [visited |-> g.visited,
                walls |-> g.walls (-) SetToBag({wall}),
                okay |-> FALSE]
        st2 == visit_cell(m, visit_cell(m, st0, cells[1]), cells[2])
    IN  [maze |-> m,
         gen |-> [visited |-> st2.visited, walls |-> st2.walls]]

\* Mutant: the picked wall is read at the index drawn and left in the
\* frontier.
generate_step_keeps_wall(m, g, wall) ==
    LET cells == get_neighbour_cells(wall, m.dimensions)
        st0 == [visited |-> g.visited, walls |-> g.walls, okay |-> FALSE]
        st2 == visit_cell(m, visit_cell(m, st0, cells[1]), cells[2])
    IN  [maze |-> IF st2.okay THEN set_wall(m, wall, FALSE) ELSE m,
         gen |-> [visited |-> st2.visited, walls |-> st2.walls]]

\* One iteration of generate()'s loop, with `wall` the element at the index
\* drawn, which swap_remove takes out of the frontier.
generate_step(m, g, wall) ==
    LET cells == get_neighbour_cells(wall, m.dimensions)
        st0 == [visited |-> g.visited,
                walls |-> g.walls (-) SetToBag({wall}),
                okay |-> FALSE]
        st2 == visit_cell(m, visit_cell(m, st0, cells[1]), cells[2])
    IN  [maze |-> IF st2.okay THEN set_wall(m, wall, FALSE) ELSE m,
         gen |-> [visited |-> st2.visited, walls |-> st2.walls]]

----------------------------------------------------------------------------
(* Maze::solve *)

\* a + b exceeds usize::MAX: `+` panics under overflow checks and wraps
\* without them.
add_overflows(a, b) ==
    \/ a < 0 /\ b < 0
    \/ (a < 0) # (b < 0) /\ a + b >= 0

\* The loop of distance() from axis i on: the result, wrapped, and whether an
\* addition overflowed.  isize::div_euclid by a positive divisor rounds down,
\* as \div does; `as usize` keeps the representative.
RECURSIVE distance_from(_, _, _, _, _, _)
distance_from(m, position1, position2, i, result, overflowed) ==
    IF i >= Len(m.dimensions)
    THEN [result |-> result, overflowed |-> overflowed]
    ELSE
        LET term == (At(position1, i) - At(position2, i)) \div At(m.dimensions, i) IN
        distance_from(m, position1, position2, i + 1, result + term,
                      overflowed \/ add_overflows(result, term))

\* Maze::distance
distance(m, position1, position2) ==
    distance_from(m, position1, position2, 0, 0, FALSE)

Node(position, g_score, f_score) ==
    [position |-> position, g_score |-> g_score, f_score |-> f_score]

NoSolve == [open |-> EmptyHeap, visited |-> {}, links |-> <<>>]

\* The start of solve(): the outcome ("run" to enter the loop) and the locals.
solve_begin(m, checks) ==
    LET d == distance(m, m.start, m.end) IN
    IF checks /\ d.overflowed
    THEN [outcome |-> "panic_overflow", slv |-> NoSolve]
    ELSE [outcome |-> "run",
          slv |-> [open |-> push(EmptyHeap, "Keep", Node(m.start, 0, d.result)).heap,
                   visited |-> {},
                   links |-> <<>>]]

\* The loop over the neighbours of the popped node, from the n-th on: the
\* open set and the links after it, and whether an addition panicked.
RECURSIVE expand(_, _, _, _, _, _, _)
expand(m, checks, node, visited, open, links, n) ==
    IF n > 2 * Len(m.dimensions)
    THEN [open |-> open, links |-> links, panicked |-> FALSE]
    ELSE
        LET nb == neighbours(m, node.position)[n] IN
        IF nb.position \in visited
        THEN expand(m, checks, node, visited, open, links, n + 1)
        ELSE IF get_wall(m, nb.wall)
        THEN expand(m, checks, node, visited, open, links, n + 1)
        ELSE
            LET g_score == node.g_score + 1
                d == distance(m, nb.position, m.end)
                f_score == g_score + d.result
            IN
            IF checks /\ (d.overflowed \/ add_overflows(g_score, d.result))
            THEN [open |-> open, links |-> links, panicked |-> TRUE]
            ELSE
                LET pushed == push(open, "DecreaseKey",
                                   Node(nb.position, g_score, f_score))
                IN
                IF ~pushed.ret
                THEN expand(m, checks, node, visited, pushed.heap, links, n + 1)
                ELSE expand(m, checks, node, visited, pushed.heap,
                            map_insert(links, nb.position, node.position), n + 1)

\* The walk back from `current` to start along links: the cells passed, end
\* first, or found = FALSE when links.remove(&current) is None.
RECURSIVE walk_back(_, _, _, _)
walk_back(m, links, current, paths) ==
    IF current = m.start THEN [found |-> TRUE, paths |-> Append(paths, current)]
    ELSE IF current \notin DOMAIN links THEN [found |-> FALSE, paths |-> paths]
    ELSE walk_back(m, map_remove(links, current), links[current],
                   Append(paths, current))

\* Vec::reverse
reverse(s) == [i \in 1..Len(s) |-> s[Len(s) + 1 - i]]

\* One iteration of solve()'s loop, or its end: the outcome ("run" to go on,
\* "return" with the path, or the panic), the locals and the path.
solve_step(m, checks, sv) ==
    LET popped == pop(sv.open) IN
    IF popped.ret = None
    THEN [outcome |-> "panic_no_path", slv |-> sv, paths |-> None]
    ELSE
        LET node == popped.ret IN
        IF node.position = m.end
        THEN
            LET back == walk_back(m, sv.links, m.end, <<>>) IN
            IF back.found
            THEN [outcome |-> "return", slv |-> NoSolve,
                  paths |-> Some(reverse(back.paths))]
            ELSE [outcome |-> "panic_unwrap", slv |-> sv, paths |-> None]
        ELSE
            LET e == expand(m, checks, node, sv.visited, popped.heap, sv.links, 1) IN
            IF e.panicked
            THEN [outcome |-> "panic_overflow", slv |-> sv, paths |-> None]
            ELSE [outcome |-> "run",
                  slv |-> [open |-> e.open,
                           visited |-> sv.visited \cup {node.position},
                           links |-> e.links],
                  paths |-> None]

----------------------------------------------------------------------------
(* A maze driven by its caller: constructed, then generated, changed by    *)
(* set_wall() and solved any number of times (MazeSpec); walked over walls *)
(* set by hand (WalkSpec); written through set_wall() alone (WallSpec);    *)
(* generated under fairness (GenerateSpec); generated and solved with no   *)
(* wall set by hand (PlaySpec); solved on the open grid (OpenGridSpec);    *)
(* and the application from its menu to a generated maze (NewSpec).  A     *)
(* panic ends the process.                                                 *)

NoGen == [visited |-> {}, walls |-> EmptyBag]

MazeInit ==
    /\ overflow_checks \in BOOLEAN
    /\ \E dimensions \in Shapes : maze = new(dimensions)
    /\ pc = "idle"
    /\ generated = FALSE
    /\ gen = NoGen
    /\ slv = NoSolve
    /\ solution = None
    /\ last_walk = None
    /\ regenerated = FALSE
    /\ dimension = <<>>

\* generate() is entered: start and end are drawn and the frontier is set up.
GenerateBegin ==
    /\ pc = "idle"
    /\ \E s \in Cells(maze.dimensions), e \in Cells(maze.dimensions) :
        LET b == generate_begin(maze, s, e) IN
        /\ maze' = b.maze
        /\ gen' = b.gen
        /\ pc' = IF b.gen.walls = EmptyBag THEN "idle" ELSE "generate"
        /\ generated' = (b.gen.walls = EmptyBag)
    /\ solution' = None
    /\ regenerated' = (\E i \in 1..Len(maze.walls) : ~maze.walls[i])
    /\ UNCHANGED <<overflow_checks, slv, last_walk, dimension, heap_vars>>

\* One iteration of generate()'s loop; generate() returns when the frontier
\* is empty.
GenerateStep ==
    /\ pc = "generate"
    /\ \E wall \in BagToSet(gen.walls) :
        LET r == generate_step(maze, gen, wall) IN
        /\ maze' = r.maze
        /\ gen' = r.gen
        /\ pc' = IF r.gen.walls = EmptyBag THEN "idle" ELSE "generate"
        /\ generated' = (r.gen.walls = EmptyBag)
    /\ UNCHANGED <<overflow_checks, slv, solution, last_walk, regenerated,
                   dimension, heap_vars>>

\* solve() is entered.
SolveBegin ==
    /\ pc = "idle"
    /\ LET b == solve_begin(maze, overflow_checks) IN
        /\ slv' = b.slv
        /\ pc' = IF b.outcome = "run" THEN "solve" ELSE b.outcome
    /\ solution' = None
    /\ regenerated' = FALSE
    /\ UNCHANGED <<overflow_checks, maze, generated, gen, last_walk, dimension,
                   heap_vars>>

\* One iteration of solve()'s loop.
SolveStep ==
    /\ pc = "solve"
    /\ LET r == solve_step(maze, overflow_checks, slv) IN
        /\ slv' = r.slv
        /\ solution' = r.paths
        /\ pc' = CASE r.outcome = "run" -> "solve"
                   [] r.outcome = "return" -> "idle"
                   [] OTHER -> r.outcome
    /\ UNCHANGED <<overflow_checks, maze, generated, gen, last_walk, regenerated,
                   dimension, heap_vars>>

\* set_wall(wall, value) called by hand on a maze at rest: any wall of the
\* maze, either value.  A path returned before is that of the walls as they
\* were: it is dropped when a wall changes.
SetWall ==
    /\ pc = "idle"
    /\ \E position \in Cells(maze.dimensions),
          axis \in 0..(Len(maze.dimensions) - 1), v \in BOOLEAN :
        /\ maze' = set_wall(maze, Wall(position, axis), v)
        /\ generated' = (generated /\ maze' = maze)
        /\ solution' = IF maze' = maze THEN solution ELSE None
    /\ last_walk' = None
    /\ regenerated' = FALSE
    /\ UNCHANGED <<overflow_checks, pc, gen, slv, dimension, heap_vars>>

\* An arrow key: walk(view_axis, sign) on the two slots, either direction.
Walk(view_axis, sign) ==
    /\ pc = "idle"
    /\ LET r == walk(maze, view_axis, sign) IN
        /\ maze' = r.maze
        /\ pc' = IF r.outcome = "return" THEN "idle" ELSE r.outcome
    /\ last_walk' = [from |-> maze.position, view_axis |-> view_axis, sign |-> sign]
    /\ UNCHANGED <<overflow_checks, generated, gen, slv, solution, regenerated,
                   dimension, heap_vars>>

\* Two digit keys: set_view_axis(view_axis, axis), with arguments in and
\* just out of range.
SetViewAxis(view_axis, axis) ==
    /\ pc = "idle"
    /\ maze' = set_view_axis(maze, view_axis, axis)
    /\ last_walk' = None
    /\ UNCHANGED <<overflow_checks, pc, generated, gen, slv, solution, regenerated,
                   dimension, heap_vars>>

\* start(): the explorer is put back on the start cell.
Start ==
    /\ pc = "idle"
    /\ maze' = start(maze)
    /\ last_walk' = None
    /\ UNCHANGED <<overflow_checks, pc, generated, gen, slv, solution, regenerated,
                   dimension, heap_vars>>

\* The characters typed into the menu.
Chars == {"0", "1", "2", ","}

\* Application::new(): the menu with nothing typed, no Maze yet.
MenuInit ==
    /\ overflow_checks \in BOOLEAN
    /\ maze = None
    /\ pc = "menu"
    /\ generated = FALSE
    /\ gen = NoGen
    /\ slv = NoSolve
    /\ solution = None
    /\ last_walk = None
    /\ regenerated = FALSE
    /\ dimension = <<>>

\* A character key in the menu.
TypeChar(c) ==
    /\ pc = "menu"
    /\ Len(dimension) < MaxInput
    /\ dimension' = Append(dimension, c)
    /\ UNCHANGED <<overflow_checks, maze, pc, generated, gen, slv, solution,
                   last_walk, regenerated, heap_vars>>

\* Esc in the menu: dimension.clear().
ClearInput ==
    /\ pc = "menu"
    /\ dimension' = <<>>
    /\ UNCHANGED <<overflow_checks, maze, pc, generated, gen, slv, solution,
                   last_walk, regenerated, heap_vars>>

\* Backspace in the menu: dimension.pop().
Backspace ==
    /\ pc = "menu"
    /\ dimension' = IF dimension = <<>> THEN <<>>
                    ELSE SubSeq(dimension, 1, Len(dimension) - 1)
    /\ UNCHANGED <<overflow_checks, maze, pc, generated, gen, slv, solution,
                   last_walk, regenerated, heap_vars>>

\* Enter in the menu, up to the return of Maze::new: when the string parses,
\* the Maze is constructed from the numbers parsed.  The dimension vectors
\* entered are those whose walls array is within the bound.
Enter ==
    /\ pc = "menu"
    /\ LET parsed == parse_dimension(dimension) IN
        /\ parsed # None
        /\ Product(parsed.some) * Len(parsed.some) <= MaxWalls
        /\ maze' = new(parsed.some)
    /\ pc' = "new"
    /\ UNCHANGED <<overflow_checks, generated, gen, slv, solution, last_walk,
                   regenerated, dimension, heap_vars>>

\* Enter, from the call of generate() to its loop: random_range(0..0)
\* panics on an empty range, which is what a dimension of zero asks for;
\* else start and end are drawn and the frontier is set up.
EnterGenerate ==
    /\ pc = "new"
    /\ IF \E i \in 1..Len(maze.dimensions) : maze.dimensions[i] = 0
       THEN /\ pc' = "panic_empty_range"
            /\ UNCHANGED <<maze, gen, generated>>
       ELSE \E s \in Cells(maze.dimensions), e \in Cells(maze.dimensions) :
            LET b == generate_begin(maze, s, e) IN
            /\ maze' = b.maze
            /\ gen' = b.gen
            /\ pc' = IF b.gen.walls = EmptyBag THEN "idle" ELSE "generate"
            /\ generated' = (b.gen.walls = EmptyBag)
    /\ UNCHANGED <<overflow_checks, slv, solution, last_walk, regenerated,
                   dimension, heap_vars>>

\* Enter, after generate() has returned: start(), and the application is
\* Main, the menu and its string dropped.
EnterStart ==
    /\ pc = "idle"
    /\ maze' = start(maze)
    /\ pc' = "main"
    /\ dimension' = <<>>
    /\ UNCHANGED <<overflow_checks, generated, gen, slv, solution, last_walk,
                   regenerated, heap_vars>>

\* Esc in Main with no view axis pending: Application::new() again.
Leave ==
    /\ pc = "main"
    /\ maze' = None
    /\ pc' = "menu"
    /\ generated' = FALSE
    /\ gen' = NoGen
    /\ UNCHANGED <<overflow_checks, slv, solution, last_walk, regenerated,
                   dimension, heap_vars>>

\* The application from its menu to a generated maze and back.
NewNext ==
    \/ \E c \in Chars : TypeChar(c)
    \/ ClearInput
    \/ Backspace
    \/ Enter
    \/ EnterGenerate
    \/ GenerateStep
    \/ EnterStart
    \/ Leave

\* The explorer driven over walls set by hand.
WalkNext ==
    \/ SetWall
    \/ \E view_axis \in 0..1, sign \in BOOLEAN : Walk(view_axis, sign)
    \/ \E view_axis \in 0..2, axis \in 0..Len(maze.dimensions) :
        SetViewAxis(view_axis, axis)
    \/ Start

MazeNext ==
    \/ GenerateBegin
    \/ GenerateStep
    \/ SetWall
    \/ SolveBegin
    \/ SolveStep

\* The heap parked while the maze runs, and the maze parked while the heap
\* is exercised.
HeapParked ==
    /\ heap = EmptyHeap
    /\ before = EmptyHeap
    /\ call = NoCall
    /\ ret = None
    /\ last_popped = {}

MazeParked ==
    /\ overflow_checks = FALSE
    /\ maze = new(<<1>>)
    /\ pc = "idle"
    /\ generated = FALSE
    /\ gen = NoGen
    /\ slv = NoSolve
    /\ solution = None
    /\ last_walk = None
    /\ regenerated = FALSE
    /\ dimension = <<>>

MazeSpecInit == MazeInit /\ HeapParked

MazeSpec == MazeSpecInit /\ [][MazeNext]_vars

WalkSpec == MazeSpecInit /\ [][WalkNext]_vars

\* The walls of a constructed maze written through set_wall() alone.
WallNext == SetWall

WallSpec == MazeSpecInit /\ [][WallNext]_vars

NewSpecInit == MenuInit /\ HeapParked

NewSpec == NewSpecInit /\ [][NewNext]_vars

\* generate() alone, called any number of times.  Its loop is one call that
\* runs to completion on one thread: an iteration that can be taken is
\* taken.
GenerateNext ==
    \/ GenerateBegin
    \/ GenerateStep

GenerateSpecInit ==
    /\ MazeSpecInit
    /\ Len(maze.walls) <= MaxLiveWalls

GenerateSpec ==
    GenerateSpecInit /\ [][GenerateNext]_vars /\ WF_vars(GenerateStep)

\* The maze as the application drives it: generate() and solve(), each any
\* number of times, with no wall written by hand, on the shapes of
\* GenerateSpec.
PlayNext ==
    \/ GenerateBegin
    \/ GenerateStep
    \/ SolveBegin
    \/ SolveStep

PlaySpec == GenerateSpecInit /\ [][PlayNext]_vars

\* solve() on the fully open grid of shape [5, 5]: every wall cleared by
\* set_wall(), start and end any two cells (generate() draws them).
OpenGrid == <<5, 5>>

OpenGridInit ==
    /\ overflow_checks \in BOOLEAN
    /\ \E s \in Cells(OpenGrid), e \in Cells(OpenGrid) :
        maze = [new(OpenGrid) EXCEPT
                    !.start = s, !.end = e,
                    !.walls = [i \in 1..(Product(OpenGrid) * Len(OpenGrid)) |-> FALSE]]
    /\ pc = "idle"
    /\ generated = FALSE
    /\ gen = NoGen
    /\ slv = NoSolve
    /\ solution = None
    /\ last_walk = None
    /\ regenerated = FALSE
    /\ dimension = <<>>

OpenGridNext ==
    \/ SolveBegin
    \/ SolveStep

OpenGridSpecInit == OpenGridInit /\ HeapParked

OpenGridSpec == OpenGridSpecInit /\ [][OpenGridNext]_vars

Init == HeapInit /\ MazeParked

Spec == Init /\ [][HeapNext]_vars

----------------------------------------------------------------------------
(* Properties of the heap, checked under Spec. *)

\* The items stored, as a set, and the keys stored.
Stored(h) == {h.items[i] : i \in 1..Len(h.items)}

StoredKeys(h) == {key(h.items[i]) : i \in 1..Len(h.items)}

\* The min-heap property of the backing array.
MinHeap(h) ==
    \A i \in 1..(Len(h.items) - 1) :
        value(At(h.items, (i - 1) \div 2)) <= value(At(h.items, i))

\* The values of a sequence of items never decrease.
NonDecreasing(s) ==
    \A i \in 1..(Len(s) - 1) : value(s[i]) <= value(s[i + 1])

\* The key of the last call's item, and the item stored under it before the
\* call.
CallKey == key(call.item)

OldItem == At(before.items, before.map[CallKey])

IsPush(action) == call.op = "push" /\ call.action = action

\* C1: after any sequence of pushes (Keep, DecreaseKey, IncreaseKey), pops
\* and drains, the item at array position i has a map entry under its key,
\* and that entry is i.
C1_MapAgreesWithArray ==
    \A i \in 0..(Len(heap.items) - 1) :
        /\ key(At(heap.items, i)) \in DOMAIN heap.map
        /\ heap.map[key(At(heap.items, i))] = i

\* A pop of a heap of four items has moved the last item to the root and
\* sifted it down again.
C1_Witness ==
    /\ call.op = "pop"
    /\ Len(before.items) >= 4
    /\ LET k == key(before.items[Len(before.items)]) IN
       /\ before.map[k] = Len(before.items) - 1
       /\ heap.map[k] >= 1

\* C2: after any sequence of pushes and pops the array is a min-heap: for
\* every index i > 0 the value at (i - 1) / 2 is at most the value at i.
C2_MinHeapProperty == MinHeap(heap)

\* A DecreaseKey push has sifted an item from the bottom level to the root.
C2_Witness ==
    /\ IsPush("DecreaseKey")
    /\ ret = TRUE
    /\ CallKey \in DOMAIN before.map
    /\ before.map[CallKey] = 3
    /\ heap.map[CallKey] = 0

\* C3: pop on a non-empty heap returns a stored item whose value is at most
\* that of every item stored before the call, removes it and only it, and
\* every other key keeps its item; pop on an empty heap returns None and
\* leaves the heap empty.
C3_PopRemovesMinimum ==
    call.op = "pop" =>
        IF before.items = <<>>
        THEN ret = None /\ heap = EmptyHeap
        ELSE /\ ret # None
             /\ ret \in Stored(before)
             /\ \A it \in Stored(before) : value(ret) <= value(it)
             /\ Stored(heap) = Stored(before) \ {ret}
             /\ Len(heap.items) = Len(before.items) - 1
             /\ DOMAIN heap.map = DOMAIN before.map \ {key(ret)}

\* A pop of a heap of four or more items that hold different values.
C3_Witness ==
    /\ call.op = "pop"
    /\ Len(before.items) >= 4
    /\ \E it \in Stored(before) : value(ret) < value(it)

\* C4: popping until the heap is empty yields items whose values never
\* decrease, as many of them as there were keys stored, and empties the heap.
C4_DrainIsSorted ==
    call.op = "drain" =>
        /\ NonDecreasing(ret)
        /\ Len(ret) = Cardinality(StoredKeys(before))
        /\ {ret[i] : i \in 1..Len(ret)} = Stored(before)
        /\ heap = EmptyHeap

\* A drain of four or more items of three different values.
C4_Witness ==
    /\ call.op = "drain"
    /\ Len(ret) >= 4
    /\ Cardinality({value(ret[i]) : i \in 1..Len(ret)}) >= 3

\* C5: push(DecreaseKey, item) on a stored key: with a strictly smaller
\* value the stored item is replaced by item, true is returned and the pops
\* that follow bring the key out at its new value, in non-decreasing order;
\* with an equal or larger value the heap is unchanged and false is returned.
C5_DecreaseKey ==
    (IsPush("DecreaseKey") /\ CallKey \in DOMAIN before.map) =>
        IF value(call.item) < value(OldItem)
        THEN /\ ret = TRUE
             /\ Stored(heap) = (Stored(before) \ {OldItem}) \cup {call.item}
             /\ Len(heap.items) = Len(before.items)
             /\ LET order == drain(heap, <<>>).ret IN
                /\ NonDecreasing(order)
                /\ \E i \in 1..Len(order) : order[i] = call.item
                /\ \A i \in 1..Len(order) : order[i] # OldItem
        ELSE /\ ret = FALSE
             /\ heap = before

\* A DecreaseKey push that lowered the value of an item off the root below
\* the root's value.
C5_Witness ==
    /\ IsPush("DecreaseKey")
    /\ CallKey \in DOMAIN before.map
    /\ before.map[CallKey] >= 1
    /\ value(call.item) < value(At(before.items, 0))
    /\ ret = TRUE

\* C6: push(IncreaseKey, item) on a stored key: with a strictly larger value
\* the stored item is replaced by item, its slot moves toward the leaves
\* until the array is a min-heap again, and true is returned; with an equal
\* or smaller value the heap is unchanged and false is returned.
C6_IncreaseKey ==
    (IsPush("IncreaseKey") /\ CallKey \in DOMAIN before.map) =>
        IF value(call.item) > value(OldItem)
        THEN /\ ret = TRUE
             /\ Stored(heap) = (Stored(before) \ {OldItem}) \cup {call.item}
             /\ Len(heap.items) = Len(before.items)
             /\ heap.map[CallKey] >= before.map[CallKey]
             /\ At(heap.items, heap.map[CallKey]) = call.item
             /\ MinHeap(heap)
        ELSE /\ ret = FALSE
             /\ heap = before

\* An IncreaseKey push that raised the root's value and moved it down.
C6_Witness ==
    /\ IsPush("IncreaseKey")
    /\ CallKey \in DOMAIN before.map
    /\ before.map[CallKey] = 0
    /\ heap.map[CallKey] >= 3
    /\ ret = TRUE

\* C7: a push of a key that is not stored inserts the item and returns true
\* under every PushAction, also when the key was stored before and has been
\* popped; the keys stored before keep their items.
C7_PushVacant ==
    (call.op = "push" /\ CallKey \notin DOMAIN before.map) =>
        /\ ret = TRUE
        /\ Stored(heap) = Stored(before) \cup {call.item}
        /\ Len(heap.items) = Len(before.items) + 1
        /\ DOMAIN heap.map = DOMAIN before.map \cup {CallKey}

\* A key that was stored and popped by the call before is pushed again,
\* with Keep, onto a heap that holds other keys.
C7_Witness ==
    /\ IsPush("Keep")
    /\ CallKey \in last_popped
    /\ CallKey \notin DOMAIN before.map
    /\ Len(before.items) >= 2
    /\ ret = TRUE

\* C8: push(Keep, item) on a stored key returns false and leaves the array
\* and the map as they were, whatever the value of item.
C8_KeepIsNoOp ==
    (IsPush("Keep") /\ CallKey \in DOMAIN before.map) =>
        /\ ret = FALSE
        /\ heap = before

\* A Keep push of a stored key with a value below the stored one.
C8_Witness ==
    /\ IsPush("Keep")
    /\ CallKey \in DOMAIN before.map
    /\ value(call.item) < value(OldItem)
    /\ ret = FALSE

\* C24: after any sequence of pushes and pops the map holds one entry per
\* stored item and nothing else: it has as many entries as the array has
\* slots, no two slots hold the same key, and the key of an item that pop()
\* returned is not in the map.
C24_MapHoldsOneEntryPerItem ==
    /\ Cardinality(DOMAIN heap.map) = Len(heap.items)
    /\ \A i \in 1..Len(heap.items) : \A j \in 1..Len(heap.items) :
        i # j => key(heap.items[i]) # key(heap.items[j])
    /\ (call.op = "pop" /\ ret # None) => key(ret) \notin DOMAIN heap.map

\* A pop has taken one of two items of equal value out of a heap of four or
\* more items that hold different values.
C24_Witness ==
    /\ call.op = "pop"
    /\ ret # None
    /\ Len(heap.items) >= 3
    /\ \E it \in Stored(heap) : value(it) = value(ret)
    /\ \E it \in Stored(heap) : value(it) > value(ret)

----------------------------------------------------------------------------
(* Properties of the maze, checked under MazeSpec. *)

\* Every wall of a maze, and those that are open (not present).
AllWalls(m) ==
    {Wall(p, a) : p \in Cells(m.dimensions), a \in 0..(Len(m.dimensions) - 1)}

OpenWalls(m) == {w \in AllWalls(m) : ~get_wall(m, w)}

\* The cells reached from the cells of `seen` by crossing walls of W.
RECURSIVE Reach(_, _, _)
Reach(m, seen, W) ==
    LET next == seen \cup
            {c \in Cells(m.dimensions) :
                \E w \in W :
                    LET n == get_neighbour_cells(w, m.dimensions) IN
                    \/ n[1] \in seen /\ n[2] = c
                    \/ n[2] \in seen /\ n[1] = c}
    IN  IF next = seen THEN seen ELSE Reach(m, next, W)

\* No cycle among the walls of W: every one of them joins two different
\* cells that nothing else of W connects.
Acyclic(m, W) ==
    \A w \in W :
        LET n == get_neighbour_cells(w, m.dimensions) IN
        /\ n[1] # n[2]
        /\ n[2] \notin Reach(m, {n[1]}, W \ {w})

Panics == {"panic_no_path", "panic_overflow", "panic_unwrap"}

\* C9: when generate() has returned, exactly cellCount - 1 walls are open,
\* every cell is reachable from start through open walls, and the open
\* walls hold no cycle: they are a spanning tree of the torus cell graph.
C9_GenerateSpanningTree ==
    generated =>
        /\ Cardinality(OpenWalls(maze)) = Cardinality(Cells(maze.dimensions)) - 1
        /\ Reach(maze, {maze.start}, OpenWalls(maze)) = Cells(maze.dimensions)
        /\ Acyclic(maze, OpenWalls(maze))

\* generate() has returned on a ring of five or more cells with the
\* wraparound wall open and start off the origin.
C9_Witness ==
    /\ generated
    /\ Len(maze.dimensions) = 1
    /\ maze.dimensions[1] >= 5
    /\ ~get_wall(maze, Wall(<<maze.dimensions[1] - 1>>, 0))
    /\ maze.start # <<0>>

\* C10: a solve() that follows generate() returns a path: it ends in no
\* panic, and in particular not in "No path found".
C10_SolveAfterGenerateReturns ==
    generated => pc \notin Panics

\* The part of C10 that the code keeps in every build: after generate(),
\* solve() never ends in "No path found" nor in a failed unwrap.
SolveAfterGenerateFindsEnd ==
    generated => pc \notin {"panic_no_path", "panic_unwrap"}

\* Without overflow checks a solve() that follows generate() ends in no
\* panic at all.
SolveAfterGenerateReturnsWrapping ==
    (generated /\ ~overflow_checks) => pc \notin Panics

\* Two cells are joined by a wall of W: they are the two cells the wall
\* separates.
Joined(m, a, b, W) ==
    \E w \in W :
        LET n == get_neighbour_cells(w, m.dimensions) IN
        n = <<a, b>> \/ n = <<b, a>>

\* C11: whenever solve() has returned a path, whatever the walls, its first
\* cell is start, its last cell is end, and every two consecutive cells are
\* different cells separated by an open wall; when start = end the path is
\* the one cell start.
C11_SolveReturnsValidPath ==
    solution # None =>
        LET path == solution.some IN
        /\ Len(path) >= 1
        /\ path[1] = maze.start
        /\ path[Len(path)] = maze.end
        /\ \A i \in 1..(Len(path) - 1) :
            /\ path[i] # path[i + 1]
            /\ Joined(maze, path[i], path[i + 1], OpenWalls(maze))
        /\ maze.start = maze.end => path = <<maze.start>>

\* solve() has returned a path of four or more cells that crosses the
\* wraparound wall of a ring whose walls have all been opened by hand.
C11_Witness ==
    /\ solution # None
    /\ ~generated
    /\ Len(maze.dimensions) = 1
    /\ Len(solution.some) >= 4
    /\ \E i \in 1..(Len(solution.some) - 1) :
        {solution.some[i], solution.some[i + 1]} = {<<0>>, <<maze.dimensions[1] - 1>>}
    /\ Cardinality(OpenWalls(maze)) = Cardinality(Cells(maze.dimensions))

\* The cells of `seen` and those one wall of W away from them.
Grow(m, seen, W) ==
    seen \cup {c \in Cells(m.dimensions) : \E a \in seen : Joined(m, a, c, W)}

\* The least number of walls of W to cross from the cells of `seen` (n walls
\* away from where the count began) to `target`, which they reach.
RECURSIVE Steps(_, _, _, _, _)
Steps(m, seen, W, target, n) ==
    IF target \in seen THEN n ELSE Steps(m, Grow(m, seen, W), W, target, n + 1)

EndReachable(m) == m.end \in Reach(m, {m.start}, OpenWalls(m))

\* The part of C12 that the code keeps within the bound: a path that solve()
\* returns has the least number of steps.
ReturnedPathIsShortest ==
    solution # None =>
        Len(solution.some) - 1 =
            Steps(maze, {maze.start}, OpenWalls(maze), maze.end, 0)

\* C12: under any walls that leave end reachable from start, solve() returns
\* (it ends in no panic), and the path it returns has the least number of
\* steps in the graph of the open walls, wraparound walls included.
C12_SolveReturnsShortestPath ==
    /\ EndReachable(maze) => pc \notin Panics
    /\ ReturnedPathIsShortest

\* C13: when end is not reachable from start through open walls, solve()
\* comes back with a "no path" result: the process is not ended by a panic.
C13_NoPathIsRecoverable ==
    ~EndReachable(maze) => pc \notin Panics

----------------------------------------------------------------------------
(* Properties of the explorer, checked under WalkSpec. *)

\* The cell one step from `from` along `axis` in the direction of `sign`,
\* around the torus.
StepTo(m, from, axis, sign) ==
    SetAt(from, axis,
          (At(from, axis) + (IF sign THEN 1 ELSE -1)) % At(m.dimensions, axis))

\* What walk() is to do from `from` along an axis of the maze: stay when the
\* wall to the cell one step away is present, else be on that cell.
WalkedAlong(m, from, axis, sign) ==
    LET to == StepTo(m, from, axis, sign) IN
    \E w \in AllWalls(m) :
        /\ w.axis = axis
        /\ get_neighbour_cells(w, m.dimensions) =
               IF sign THEN <<from, to>> ELSE <<to, from>>
        /\ m.position = IF get_wall(m, w) THEN from ELSE to

\* C14: after walk(axisSlot, sign), for both slots and both directions on any
\* maze of one or more axes: no panic has ended the call; the position is
\* the one before when the wall towards the destination cell is present,
\* and else it is the destination cell, one step along the slot's axis with
\* wraparound, the other coordinates unchanged.
C14_WalkMovesThroughOpenWalls ==
    last_walk # None =>
        /\ pc # "panic_bounds"
        /\ WalkedAlong(maze, last_walk.from,
                       At(maze.axes, last_walk.view_axis), last_walk.sign)

\* The part of C14 that the code keeps: a walk on a slot bound to an axis of
\* the maze does what C14 says.
WalkOnBoundAxis ==
    (last_walk # None /\ At(maze.axes, last_walk.view_axis) < Len(maze.dimensions)) =>
        /\ pc # "panic_bounds"
        /\ WalkedAlong(maze, last_walk.from,
                       At(maze.axes, last_walk.view_axis), last_walk.sign)

\* C25: in every state of a maze of D >= 1 axes that new, start, walk and
\* set_view_axis reach, both view axes are axes of the maze (axes[0] < D and
\* axes[1] < D), and walk() on either slot reads inside positions,
\* dimensions and walls.
C25_ViewAxesAreAxesOfTheMaze ==
    /\ \A view_axis \in 0..1 : At(maze.axes, view_axis) < Len(maze.dimensions)
    /\ pc # "panic_bounds"

\* The part of C25 that the code keeps: slot 0 is always bound to an axis of
\* the maze, and slot 1 is on every maze of two or more axes.
ViewAxesOfTwoAxes ==
    /\ At(maze.axes, 0) < Len(maze.dimensions)
    /\ Len(maze.dimensions) >= 2 =>
        /\ At(maze.axes, 1) < Len(maze.dimensions)
        /\ pc # "panic_bounds"

----------------------------------------------------------------------------
(* Properties of the maze, continued. *)

\* C16 (under GenerateSpec, which states the fairness of the loop): on every
\* dimension vector of positive sizes and under every sequence of draws, the
\* loop of generate() ends: once generate() is in its loop the frontier
\* becomes empty and generate() returns.
C16_GenerateTerminates ==
    (pc = "generate") ~> (pc = "idle" /\ generated /\ gen.walls = EmptyBag)

\* Why the loop ends, on the larger bound of MazeSpec: every iteration
\* either visits a cell or leaves the visited cells as they are and takes
\* one wall off the frontier.
GenerateStepDecreases ==
    [][pc = "generate" =>
        \/ Cardinality(gen'.visited) > Cardinality(gen.visited)
        \/ /\ gen'.visited = gen.visited
           /\ BagCardinality(gen'.walls) = BagCardinality(gen.walls) - 1]_vars

\* generate() has returned on a maze of four or more cells after visiting
\* every one of them.
C16_Witness ==
    /\ pc = "idle"
    /\ generated
    /\ Product(maze.dimensions) >= 4
    /\ gen.walls = EmptyBag
    /\ gen.visited = Cells(maze.dimensions)

\* The toroidal taxicab distance from axis i on: per axis the lesser of the
\* offset and of its complement around the axis, summed.
RECURSIVE TaxicabFrom(_, _, _, _)
TaxicabFrom(m, p1, p2, i) ==
    IF i >= Len(m.dimensions) THEN 0
    ELSE
        LET offset == IF At(p1, i) >= At(p2, i)
                      THEN At(p1, i) - At(p2, i) ELSE At(p2, i) - At(p1, i)
            around == At(m.dimensions, i) - offset
        IN  (IF offset <= around THEN offset ELSE around)
                + TaxicabFrom(m, p1, p2, i + 1)

Taxicab(m, p1, p2) == TaxicabFrom(m, p1, p2, 0)

\* C17: distance(p1, p2) is the toroidal taxicab distance of the two cells,
\* which no path through open walls undercuts: every node that solve() has
\* put on the open set, its f_score computed through distance(), carries
\* f_score = g_score + the toroidal taxicab distance from its cell to end.
C17_DistanceIsTaxicab ==
    \A i \in 1..Len(slv.open.items) :
        LET node == slv.open.items[i] IN
        /\ distance(maze, node.position, maze.end).result =
               Taxicab(maze, node.position, maze.end)
        /\ node.f_score = node.g_score + Taxicab(maze, node.position, maze.end)

\* C19: generate() called on a maze that had walls open, generated before
\* or changed by hand, resets every wall first: all through the call the
\* open walls are those this call opened, a tree on the cells it has
\* visited (one wall fewer than cells, and start joined to each of them),
\* and when it returns they are a spanning tree of all cells; nothing of
\* the walls before the call is left.
C19_RegenerateResets ==
    (regenerated /\ (pc = "generate" \/ generated)) =>
        /\ Cardinality(OpenWalls(maze)) = Cardinality(gen.visited) - 1
        /\ Reach(maze, {maze.start}, OpenWalls(maze)) = gen.visited
        /\ generated => gen.visited = Cells(maze.dimensions)

\* generate() has returned on a maze of five or more cells that it was
\* entered on with a wall open.
C19_Witness ==
    /\ regenerated
    /\ generated
    /\ Cardinality(Cells(maze.dimensions)) >= 5
    /\ maze.start # maze.end

\* C20 as stated: on a maze of exactly one cell the frontier of generate()
\* is empty right after its initialisation, so that the loop is not
\* entered, and generate() opens no wall.
C20_OneCellFrontierEmpty ==
    Product(maze.dimensions) = 1 =>
        /\ pc = "generate" => gen.walls = EmptyBag
        /\ (pc = "generate" \/ generated) => OpenWalls(maze) = {}

\* C20 as amended: on a maze of exactly one cell the frontier of generate()
\* holds, after its initialisation, the 2 * D entries from_cell() gives for
\* the cell (each of its D walls, which lead back to the cell, twice); it
\* never grows, no cell is added to the visited ones, and generate() opens
\* no wall.
C20_OneCellNoWallOpened ==
    (Product(maze.dimensions) = 1 /\ (pc = "generate" \/ generated)) =>
        /\ OpenWalls(maze) = {}
        /\ gen.visited = {maze.start}
        /\ BagCardinality(gen.walls) <= 2 * Len(maze.dimensions)
        /\ \A w \in BagToSet(gen.walls) :
            /\ get_neighbour_cells(w, maze.dimensions) = <<maze.start, maze.start>>
            /\ CopiesIn(w, gen.walls) <= 2

\* What the frontier of a one-cell maze is when the loop is entered: two
\* entries per axis.
OneCellFrontierAtEntry ==
    [][(pc = "idle" /\ gen' # gen /\ Product(maze.dimensions) = 1) =>
        /\ pc' = "generate"
        /\ BagCardinality(gen'.walls) = 2 * Len(maze.dimensions)]_vars

\* generate() has returned on a one-cell maze of three or more axes that it
\* was entered on with a wall open.
C20_Witness ==
    /\ Product(maze.dimensions) = 1
    /\ Len(maze.dimensions) >= 3
    /\ regenerated
    /\ generated
    /\ gen.walls = EmptyBag

\* The cells in the open set of the running solve().
OpenCells == {slv.open.items[i].position : i \in 1..Len(slv.open.items)}

\* C26: during one solve(), under any walls, no cell is popped from the open
\* set more than once: a cell that was popped (it is in `visited`) is not in
\* the open set again, and the parent chain from end leads back to start
\* (the walk along `links` finds every cell it asks for).
C26_NoCellPoppedTwice ==
    /\ OpenCells \cap slv.visited = {}
    /\ pc # "panic_unwrap"

\* A wall whose two cells are one cell: the wall of an axis of size 1.
SelfLoops(m) ==
    {w \in AllWalls(m) :
        get_neighbour_cells(w, m.dimensions)[1] = get_neighbour_cells(w, m.dimensions)[2]}

\* The part of C26 that the code keeps: while no wall of an axis of size 1
\* is open, no popped cell is pushed again and the walk back finds its way.
NoCellPoppedTwiceWithoutSelfLoops ==
    SelfLoops(maze) \cap OpenWalls(maze) = {} => C26_NoCellPoppedTwice

----------------------------------------------------------------------------
(* Properties of the wall index, checked under WallSpec. *)

\* C15: on every dimension vector of positive sizes, compute_wall_index
\* gives different (position, axis) pairs, with position a cell and axis an
\* axis of the maze, different indices, and every index lies within the
\* walls array, whose length is the number of cells times the number of
\* axes.
C15_WallIndexInjective ==
    /\ Len(maze.walls) = Product(maze.dimensions) * Len(maze.dimensions)
    /\ \A w \in AllWalls(maze) :
        /\ compute_wall_index(maze, w) >= 0
        /\ compute_wall_index(maze, w) < Len(maze.walls)
    /\ \A w1 \in AllWalls(maze), w2 \in AllWalls(maze) :
        w1 # w2 => compute_wall_index(maze, w1) # compute_wall_index(maze, w2)

\* set_wall() has opened the wall of the last index, and no other, on a
\* maze of two or more axes and three or more cells.
C15_Witness ==
    /\ Len(maze.dimensions) >= 2
    /\ Product(maze.dimensions) >= 3
    /\ Cardinality(OpenWalls(maze)) = 1
    /\ \E w \in OpenWalls(maze) :
        /\ compute_wall_index(maze, w) = Len(maze.walls) - 1
        /\ w.axis = Len(maze.dimensions) - 1
        /\ \A i \in 1..Len(maze.walls) : maze.walls[i] = (i # Len(maze.walls))

----------------------------------------------------------------------------
(* Properties of the constructor, checked under NewSpec. *)

\* C18: Maze::new fails on an empty dimension vector and on one that holds
\* a zero, and constructs no Maze from it: every Maze there is has one or
\* more dimensions, each of them positive.
C18_NewRejectsBadDimensions ==
    maze # None =>
        /\ Len(maze.dimensions) >= 1
        /\ \A i \in 1..Len(maze.dimensions) : maze.dimensions[i] >= 1

----------------------------------------------------------------------------
(* Properties of solve() on the open grid, checked under OpenGridSpec. *)

\* C21: on the maze of shape [5, 5] with all walls open, solve() from start
\* (0,0) to end (4,4) returns a path of 9 cells: it ends in no panic and the
\* path it returns has 9 cells.
C21_OpenGridPathHasNineCells ==
    (maze.start = <<0, 0>> /\ maze.end = <<4, 4>>) =>
        /\ pc \notin Panics
        /\ solution # None => Len(solution.some) = 9

\* What the wrapping build returns there: a path of 3 cells, through the two
\* wraparound walls.
OpenGridWrappingPath ==
    (maze.start = <<0, 0>> /\ maze.end = <<4, 4>> /\ ~overflow_checks) =>
        /\ pc \notin Panics
        /\ solution # None => Len(solution.some) = 3

----------------------------------------------------------------------------
(* Properties of generate()'s loop, checked under GenerateSpec. *)

\* The step taken is the iteration that picked `wall` from the frontier.
PickedWall(wall) ==
    /\ pc = "generate"
    /\ wall \in BagToSet(gen.walls)
    /\ maze' = generate_step(maze, gen, wall).maze
    /\ gen' = generate_step(maze, gen, wall).gen

\* A cell was newly visited in the step.
NewlyVisited == gen'.visited # gen.visited

\* C22 as stated: in each step of the frontier loop the picked wall is open
\* after the step if one of its two cells was newly visited in the step, and
\* present after it otherwise.
C22_PickedWallOpenedOrPresent ==
    [][\A wall \in AllWalls(maze) :
        PickedWall(wall) =>
            IF NewlyVisited THEN ~get_wall(maze', wall) ELSE get_wall(maze', wall)]_vars

\* C22 as amended: the picked wall is cleared if one of its two cells was
\* newly visited in the step, and no wall is written otherwise: the picked
\* wall stays as it was, which is open when the frontier held it twice and
\* its first pick cleared it.
C22_PickedWallOpenedOrLeft ==
    [][\A wall \in AllWalls(maze) :
        PickedWall(wall) =>
            /\ maze'.walls = SetAt(maze.walls, compute_wall_index(maze, wall),
                                   IF NewlyVisited THEN FALSE ELSE get_wall(maze, wall))
            /\ NewlyVisited =>
                /\ get_wall(maze, wall)
                /\ gen'.visited \ gen.visited \subseteq
                       {get_neighbour_cells(wall, maze.dimensions)[n] : n \in 1..2}
            /\ ~NewlyVisited =>
                \A n \in 1..2 :
                    get_neighbour_cells(wall, maze.dimensions)[n] \in gen.visited]_vars

\* The loop is running with every cell visited, a wall between two visited
\* cells was picked and left present (it is out of the frontier), and an
\* open wall is still in the frontier.
C22_Witness ==
    /\ pc = "generate"
    /\ gen.visited = Cells(maze.dimensions)
    /\ \E w \in AllWalls(maze) : get_wall(maze, w) /\ w \notin BagToSet(gen.walls)
    /\ \E w \in AllWalls(maze) : ~get_wall(maze, w) /\ w \in BagToSet(gen.walls)

----------------------------------------------------------------------------
(* Properties of the walls of a cell, checked under PlaySpec. *)

\* The two cells of a wall, as a set.
CellsOf(m, wall) == {get_neighbour_cells(wall, m.dimensions)[n] : n \in 1..2}

\* `c` moved one step along `axis`, forward or backward, with wraparound.
Moved(m, c, axis, forward) ==
    [i \in 1..Len(c) |->
        IF i # axis + 1 THEN c[i]
        ELSE IF forward THEN (c[i] + 1) % m.dimensions[i]
        ELSE (c[i] + m.dimensions[i] - 1) % m.dimensions[i]]

\* C23: for every valid cell c of the maze, Wall::from_cell(c) returns 2*D
\* walls, each with c among its get_neighbour_cells, and for every (wall, n)
\* that neighbours(c) returns, the cells of the wall are {c, n} and n is c
\* moved one step along the wall's axis with wraparound.
C23_WallsAndNeighboursAgree ==
    \A c \in Cells(maze.dimensions) :
        /\ Len(from_cell(maze.dimensions, c)) = 2 * Len(maze.dimensions)
        /\ \A k \in 1..Len(from_cell(maze.dimensions, c)) :
            c \in CellsOf(maze, from_cell(maze.dimensions, c)[k])
        /\ \A k \in 1..Len(neighbours(maze, c)) :
            LET nb == neighbours(maze, c)[k] IN
            /\ CellsOf(maze, nb.wall) = {c, nb.position}
            /\ nb.wall.axis \in 0..(Len(maze.dimensions) - 1)
            /\ \E forward \in BOOLEAN :
                nb.position = Moved(maze, c, nb.wall.axis, forward)

\* On a maze of two axes, generate() has taken the walls of every cell and
\* opened the wraparound wall of the axis of two cells, and solve() has
\* taken the neighbours of the cell at the last coordinate of that axis.
C23_Witness ==
    /\ Len(maze.dimensions) = 2
    /\ gen.visited = Cells(maze.dimensions)
    /\ \E a \in 1..2 :
        /\ maze.dimensions[a] >= 2
        /\ \E c \in slv.visited :
            /\ c[a] = maze.dimensions[a] - 1
            /\ ~get_wall(maze, Wall(c, a - 1))

====
